---- MODULE Spec2Model ----
(***************************************************************************)
(* Model of homework.py: a bot that polls the Practicum homework-status    *)
(* API every RETRY_PERIOD seconds and forwards status changes to a         *)
(* Telegram chat.                                                          *)
(*                                                                         *)
(* The Russian string literals of the source are written here in Latin     *)
(* transliteration (TLA+ strings are ASCII); the comment above each one    *)
(* names the literal it stands for.  String formatting (f-strings,         *)
(* str(error), type(x)) is modelled by concatenation, so two messages are  *)
(* equal here exactly when the source's strings are equal.                 *)
(***************************************************************************)
EXTENDS Integers, Sequences, FiniteSets, TLC

(***************************************************************************)
(* Bounds of the model                                                     *)
(***************************************************************************)
\* number of loop iterations explored
MaxIter == 3
\* number of status changes the tracked homework goes through at the source
MaxChanges == 1

(***************************************************************************)
(* Program constants                                                       *)
(***************************************************************************)
RETRY_PERIOD == 600

\* HTTPStatus.OK
HTTP_OK == 200

\* HOMEWORK_VERDICTS
\*   'approved':  'Работа проверена: ревьюеру всё понравилось. Ура!'
\*   'reviewing': 'Работа взята на проверку ревьюером.'
\*   'rejected':  'Работа проверена: у ревьюера есть замечания.'
HOMEWORK_VERDICTS ==
    [approved  |-> "Rabota proverena: revyueru vsyo ponravilos. Ura!",
     reviewing |-> "Rabota vzyata na proverku revyuerom.",
     rejected  |-> "Rabota proverena: u revyuera est zamechaniya."]

\* 'Нет новых статусов'
NO_NEW_STATUSES == "Net novykh statusov"

(***************************************************************************)
(* Python values                                                           *)
(***************************************************************************)
\* os.getenv gives None for an unset variable, '' for one set to nothing
None == "<None>"
TokenValues == {None, "", "secret"}

\* bool(x) of a credential value
Truthy(x) == x # None /\ x # ""

\* all((a, b, c))
all3(a, b, c) == Truthy(a) /\ Truthy(b) /\ Truthy(c)

\* str(n) of a non-negative integer
Digit(d) == CASE d = 0 -> "0" [] d = 1 -> "1" [] d = 2 -> "2" [] d = 3 -> "3"
              [] d = 4 -> "4" [] d = 5 -> "5" [] d = 6 -> "6" [] d = 7 -> "7"
              [] d = 8 -> "8" [] d = 9 -> "9"

RECURSIVE IntToString(_)
IntToString(n) == IF n < 10 THEN Digit(n)
                  ELSE IntToString(n \div 10) \o Digit(n % 10)

\* f'{type(x)}'
TypeRepr(t) == "<class '" \o t \o "'>"

(***************************************************************************)
(* exceptions.py: the classes and the built-in class each derives from.    *)
(* str() of a KeyError is the repr of its argument, i.e. it is quoted.     *)
(***************************************************************************)
ExceptionBase ==
    [HTTPException             |-> "Exception",
     EmptyResponseException    |-> "ValueError",
     NotDictException          |-> "TypeError",
     NotListException          |-> "TypeError",
     StatusNotExistException   |-> "KeyError",
     HWStatusNotExistException |-> "KeyError",
     HWNameNotExistException   |-> "KeyError",
     HWNotExistException       |-> "KeyError"]

NoException == [cls |-> "", arg |-> ""]

Exc(cls, arg) == [cls |-> cls, arg |-> arg]

\* str(error)
StrOfError(e) == IF ExceptionBase[e.cls] = "KeyError"
                 THEN "'" \o e.arg \o "'"
                 ELSE e.arg

\* the outcome of a call: a returned value or a raised exception
Return(v) == [raised |-> FALSE, value |-> v, exc |-> NoException]
Raise(v, e) == [raised |-> TRUE, value |-> v, exc |-> e]

(***************************************************************************)
(* JSON documents of the status API                                        *)
(***************************************************************************)
\* one element of 'homeworks'
Homework(has_name, name, has_status, status) ==
    [has_name |-> has_name, homework_name |-> name,
     has_status |-> has_status, status |-> status]

\* a response body: type is the Python type of the decoded document
Payload(type, has_hw, hw_type, hws, has_cd, cd) ==
    [type |-> type, has_homeworks |-> has_hw, homeworks_type |-> hw_type,
     homeworks |-> hws, has_current_date |-> has_cd, current_date |-> cd]

\* the value None, and a name not bound yet
NonePayload == Payload("NoneType", FALSE, "NoneType", <<>>, FALSE, 0)
Unbound == Payload("unbound", FALSE, "NoneType", <<>>, FALSE, 0)

(***************************************************************************)
(* What the outside world answers                                          *)
(***************************************************************************)
\* the answer of requests.get: a response with a status code and a decoded
\* body, or a requests.RequestException (connection error, timeout)
NetResponse(code, body) == [outcome |-> "response", status_code |-> code, body |-> body]
NetError == [outcome |-> "RequestException", status_code |-> 0, body |-> NonePayload]
NoRequest == [outcome |-> "none", status_code |-> 0, body |-> Unbound]

\* what bot.send_message does: delivers, raises a TelegramError, or raises
\* an exception of another class
DeliveryOutcomes == {"delivered", "TelegramError", "Exception"}

(***************************************************************************)
(* send_message (homework.py 35-44)                                        *)
(***************************************************************************)
\* bot.send_message is called once; only TelegramError is caught
send_message(message, outcome) ==
    [calls     |-> <<"bot.send_message">>,
     text      |-> message,
     delivered |-> outcome = "delivered",
     raised    |-> outcome \notin {"delivered", "TelegramError"},
     logged    |-> IF outcome = "delivered" THEN "debug"
                   ELSE IF outcome = "TelegramError" THEN "error" ELSE "none"]

(***************************************************************************)
(* get_api_answer (homework.py 47-66)                                      *)
(***************************************************************************)
\* timestamp = current_timestamp or int(time.time())
FromDate(current_timestamp, time_now) ==
    IF current_timestamp # 0 THEN current_timestamp ELSE time_now

\* 'Страница недоступна. Ошибка: {response.status_code}'
HTTPErrorText(code) == "Stranitsa nedostupna. Oshibka: " \o IntToString(code)

\* a RequestException is logged and the function falls off its end: it
\* returns None; from_date is the query parameter of the request sent
get_api_answer(current_timestamp, time_now, net) ==
    [from_date |-> FromDate(current_timestamp, time_now)] @@
    (IF net.outcome = "RequestException"
     THEN Return(NonePayload)
     ELSE IF net.status_code # HTTP_OK
          THEN Raise(NonePayload, Exc("HTTPException", HTTPErrorText(net.status_code)))
          ELSE Return(net.body))

(***************************************************************************)
(* check_response (homework.py 69-92)                                      *)
(***************************************************************************)
\* 'Пришел ответ в неверном формате: {type(...)}'
WrongFormatText(t) == "Prishel otvet v nevernom formate: " \o TypeRepr(t)

\* 'Домашняя работа отсутствует'
HWNotExistText == "Domashnyaya rabota otsutstvuet"

\* 'Список домашних работ не содержит элементов'
EmptyResponseText == "Spisok domashnikh rabot ne soderzhit elementov"

\* the None test placed before the list test
check_response_NoneFirst(response) ==
    IF response.type # "dict"
    THEN Raise(<<>>, Exc("NotDictException", WrongFormatText(response.type)))
    ELSE IF ~response.has_homeworks
    THEN Raise(<<>>, Exc("HWNotExistException", HWNotExistText))
    ELSE IF response.homeworks_type = "NoneType"
    THEN Raise(<<>>, Exc("EmptyResponseException", EmptyResponseText))
    ELSE IF response.homeworks_type # "list"
    THEN Raise(<<>>, Exc("NotListException", WrongFormatText(response.homeworks_type)))
    ELSE Return(response.homeworks)

check_response(response) ==
    IF response.type # "dict"
    THEN Raise(<<>>, Exc("NotDictException", WrongFormatText(response.type)))
    ELSE IF ~response.has_homeworks
    THEN Raise(<<>>, Exc("HWNotExistException", HWNotExistText))
    ELSE IF response.homeworks_type # "list"
    THEN Raise(<<>>, Exc("NotListException", WrongFormatText(response.homeworks_type)))
    ELSE IF response.homeworks_type = "NoneType"
    THEN Raise(<<>>, Exc("EmptyResponseException", EmptyResponseText))
    ELSE Return(response.homeworks)

(***************************************************************************)
(* parse_status (homework.py 95-116)                                       *)
(***************************************************************************)
\* 'Отсутствует имя домашней работы'
HWNameNotExistText == "Otsutstvuet imya domashney raboty"

\* 'Отсутствует статус домашней работы'
StatusNotExistText == "Otsutstvuet status domashney raboty"

\* 'Неизвестный статус домашней работы: {homework_status}'
HWStatusNotExistText(status) == "Neizvestnyy status domashney raboty: " \o status

\* 'Изменился статус проверки работы "{homework_name}". {verdict}'
StatusText(homework_name, verdict) ==
    "Izmenilsya status proverki raboty \"" \o homework_name \o "\". " \o verdict

\* the 'status' key looked up before the 'homework_name' key
parse_status_StatusFirst(homework) ==
    IF ~homework.has_status
    THEN Raise("", Exc("StatusNotExistException", StatusNotExistText))
    ELSE IF ~homework.has_name
    THEN Raise("", Exc("HWNameNotExistException", HWNameNotExistText))
    ELSE IF homework.status \notin DOMAIN HOMEWORK_VERDICTS
    THEN Raise("", Exc("HWStatusNotExistException",
                       HWStatusNotExistText(homework.status)))
    ELSE Return(StatusText(homework.homework_name,
                           HOMEWORK_VERDICTS[homework.status]))

parse_status(homework) ==
    IF ~homework.has_name
    THEN Raise("", Exc("HWNameNotExistException", HWNameNotExistText))
    ELSE IF ~homework.has_status
    THEN Raise("", Exc("StatusNotExistException", StatusNotExistText))
    ELSE IF homework.status \notin DOMAIN HOMEWORK_VERDICTS
    THEN Raise("", Exc("HWStatusNotExistException",
                       HWStatusNotExistText(homework.status)))
    ELSE Return(StatusText(homework.homework_name,
                           HOMEWORK_VERDICTS[homework.status]))

(***************************************************************************)
(* check_tokens (homework.py 119-138)                                      *)
(***************************************************************************)
\* 'Это логирование нужно для тестов'
CriticalForTests == [text |-> "Eto logirovanie nuzhno dlya testov", listed |-> <<>>]

\* f'Отсутствуют токены: {non_existent_tokens}'
CriticalMissing(non_existent_tokens) ==
    [text |-> "Otsutstvuyut tokeny: ", listed |-> non_existent_tokens]

\* a check that is content with any one credential (any for all)
check_tokens_AnySet(practicum_token, telegram_chat_id, telegram_token) ==
    IF Truthy(practicum_token) \/ Truthy(telegram_chat_id) \/ Truthy(telegram_token)
    THEN [raised |-> FALSE, value |-> "True", critical |-> <<>>]
    ELSE [raised |-> FALSE, value |-> "None", critical |-> <<CriticalForTests>>]

\* non_existent_tokens is the tuple (): the first token that is None reaches
\* non_existent_tokens.add, which a tuple does not have (AttributeError);
\* the function has no 'return False', so it returns None after logging
check_tokens(practicum_token, telegram_chat_id, telegram_token) ==
    IF all3(practicum_token, telegram_chat_id, telegram_token)
    THEN [raised |-> FALSE, value |-> "True", critical |-> <<>>]
    ELSE IF None \in {practicum_token, telegram_chat_id, telegram_token}
    THEN [raised |-> TRUE, value |-> "AttributeError",
          critical |-> <<CriticalForTests>>]
    ELSE [raised |-> FALSE, value |-> "None",
          critical |-> <<CriticalForTests, CriticalMissing(<<>>)>>]

\* bool(x) of what check_tokens returns
TruthyResult(v) == v = "True"

(***************************************************************************)
(* State                                                                   *)
(***************************************************************************)
VARIABLES
    \* the process environment (homework.py 16-18)
    PRACTICUM_TOKEN, TELEGRAM_TOKEN, TELEGRAM_CHAT_ID,
    \* main(): where the process is, and its local variables
    pc, current_timestamp, previous_message, message, response,
    \* how the process ended: exit status and the reason
    exit_code, exit_cause,
    \* what check_tokens returned and the critical records it logged
    tokens_checked, critical_log,
    \* the clock, and the tracked homework at the status source
    now, src_status, src_change,
    \* what the last iteration did: the answer of the network, the
    \* from_date it asked for, the exception its except clause caught, the
    \* outcome of its delivery attempt and its calls in order
    iter, net, from_date, failure, delivery, events,
    \* the last text handed to the bot, and the last one delivered
    last_attempt, last_delivered,
    \* for the latest status change: whether a poll returned it, and how
    \* many notifications of it were delivered
    reported, delivered_count,
    \* check_response and parse_status taken alone: an argument for each,
    \* which of them has been applied, and what each gave
    fn_payload, fn_homework, fn_applied, fn_validated, fn_parsed

vars == <<PRACTICUM_TOKEN, TELEGRAM_TOKEN, TELEGRAM_CHAT_ID,
          pc, current_timestamp, previous_message, message, response,
          exit_code, exit_cause, tokens_checked, critical_log,
          now, src_status, src_change,
          iter, net, from_date, failure, delivery, events,
          last_attempt, last_delivered, reported, delivered_count,
          fn_payload, fn_homework, fn_applied, fn_validated, fn_parsed>>

fn_vars == <<fn_payload, fn_homework, fn_applied, fn_validated, fn_parsed>>
env_vars == <<PRACTICUM_TOKEN, TELEGRAM_TOKEN, TELEGRAM_CHAT_ID>>
loop_vars == <<current_timestamp, previous_message, message, response>>
obs_vars == <<iter, net, from_date, failure, delivery, events,
              last_attempt, last_delivered, reported, delivered_count>>

\* int(time.time()) when the process starts
StartTimes == {1000}

Statuses == DOMAIN HOMEWORK_VERDICTS

\* main() not started yet
MainInit ==
    /\ pc = "start"
    /\ current_timestamp = 0
    /\ previous_message = ""
    /\ message = ""
    /\ response = Unbound
    /\ exit_code = 0
    /\ exit_cause = ""
    /\ tokens_checked = "not called"
    /\ critical_log = <<>>
    /\ now \in StartTimes
    /\ src_status = "reviewing"
    /\ src_change = 0
    /\ iter = 0
    /\ net = NoRequest
    /\ from_date = 0
    /\ failure = NoException
    /\ delivery = "none"
    /\ events = <<>>
    /\ last_attempt = ""
    /\ last_delivered = ""
    /\ reported = FALSE
    /\ delivered_count = 0

\* no function is being applied on its own
FnIdle ==
    /\ fn_payload = Unbound
    /\ fn_homework = Homework(FALSE, "", FALSE, "")
    /\ fn_applied = {}
    /\ fn_validated = Return(<<>>)
    /\ fn_parsed = Return("")

Init ==
    /\ PRACTICUM_TOKEN \in TokenValues
    /\ TELEGRAM_TOKEN \in TokenValues
    /\ TELEGRAM_CHAT_ID \in TokenValues
    /\ MainInit
    /\ FnIdle

(***************************************************************************)
(* main, before the loop (homework.py 143-148)                             *)
(***************************************************************************)
\* telegram.Bot(token=...) runs before check_tokens. The library may reject
\* a token that is None or empty by raising; with a valid token it returns.
BotConstructor(telegram_token) ==
    IF Truthy(telegram_token) THEN {"bot"} ELSE {"bot", "raise"}

\* an uncaught exception and sys.exit('text') both end the process with
\* exit status 1
Terminate(cause) ==
    /\ pc' = "Terminated"
    /\ exit_code' = 1
    /\ exit_cause' = cause

Start ==
    /\ pc = "start"
    /\ \E bot \in BotConstructor(TELEGRAM_TOKEN) :
         IF bot = "raise"
         THEN /\ Terminate("telegram.Bot")
              /\ UNCHANGED <<tokens_checked, critical_log, current_timestamp>>
         ELSE LET r == check_tokens(PRACTICUM_TOKEN, TELEGRAM_CHAT_ID, TELEGRAM_TOKEN) IN
              /\ tokens_checked' = r.value
              /\ critical_log' = r.critical
              /\ IF r.raised
                 THEN Terminate("AttributeError") /\ UNCHANGED current_timestamp
                 ELSE IF ~TruthyResult(r.value)
                 THEN Terminate("sys.exit") /\ UNCHANGED current_timestamp
                 ELSE /\ pc' = "Running"
                      /\ current_timestamp' = now
                      /\ UNCHANGED <<exit_code, exit_cause>>
    /\ UNCHANGED <<env_vars, previous_message, message, response,
                   now, src_status, src_change, obs_vars, fn_vars>>

(***************************************************************************)
(* The status source                                                       *)
(***************************************************************************)
\* the record of the tracked homework, as the source reports it now
Tracked == Homework(TRUE, "hw1", TRUE, src_status)

\* records the source can also send
AnotherHomework == Homework(TRUE, "hw2", TRUE, "approved")
NoNameHomework == Homework(FALSE, "", TRUE, "approved")
NoStatusHomework == Homework(TRUE, "hw1", FALSE, "")
EmptyHomework == Homework(FALSE, "", FALSE, "")
UnknownStatusHomework == Homework(TRUE, "hw1", TRUE, "cancelled")

\* a JSON object with a list at 'homeworks': the list empty or starting
\* with the tracked record, with 'current_date' absent, 0 or the time of
\* the answer; and lists whose first record is malformed
ListBodies ==
    {Payload("dict", TRUE, "list", hws, FALSE, 0) : hws \in {<<>>, <<Tracked>>}}
    \cup {Payload("dict", TRUE, "list", hws, TRUE, cd) :
            hws \in {<<>>, <<Tracked>>}, cd \in {0, now}}
    \cup {Payload("dict", TRUE, "list", hws, TRUE, now) :
            hws \in {<<Tracked, NoNameHomework>>, <<Tracked, AnotherHomework>>,
                     <<NoNameHomework>>, <<NoStatusHomework>>, <<EmptyHomework>>,
                     <<UnknownStatusHomework>>}}

\* documents of another shape: a JSON array, null, an object without
\* 'homeworks', and objects whose 'homeworks' is a string or null
OddBodies ==
    {Payload("list", FALSE, "NoneType", <<>>, FALSE, 0),
     NonePayload,
     Payload("dict", FALSE, "NoneType", <<>>, TRUE, now),
     Payload("dict", TRUE, "str", <<>>, TRUE, now),
     Payload("dict", TRUE, "NoneType", <<>>, TRUE, now)}

\* what requests.get can answer in an iteration
NetOutcomes ==
    {NetError, NetResponse(500, NonePayload)}
    \cup {NetResponse(HTTP_OK, b) : b \in ListBodies \cup OddBodies}

(***************************************************************************)
(* main, one iteration of the loop (homework.py 150-170)                   *)
(***************************************************************************)
\* f'Сбой в работе программы: {error}'
ErrorReport(error) == "Sboy v rabote programmy: " \o StrOfError(error)

\* response.get('current_date', current_timestamp)
GetCurrentDate(resp, default) ==
    IF resp.has_current_date THEN resp.current_date ELSE default

\* an except clause reached after current_timestamp was already assigned
\* from the response
Except_Advanced(error, cur_ts, resp, asked) ==
    [message |-> ErrorReport(error),
     current_timestamp |-> GetCurrentDate(resp, cur_ts),
     response |-> resp, failure |-> error, from_date |-> asked,
     homeworks |-> <<>>, parsed |-> FALSE]

\* what the except clause leaves: the error report; current_timestamp is
\* not assigned, response keeps the value it had when the exception came
Except(error, cur_ts, resp, asked) ==
    [message |-> ErrorReport(error), current_timestamp |-> cur_ts,
     response |-> resp, failure |-> error, from_date |-> asked,
     homeworks |-> <<>>, parsed |-> FALSE]

\* taking the last element of the list for the newest record
FirstHomework_Last(homeworks) == homeworks[Len(homeworks)]

\* homework = homeworks[0]
FirstHomework(homeworks) == homeworks[1]

\* the try block with its except clause (151-165)
TryBlock(cur_ts, old_response, time_now, answer) ==
    LET a == get_api_answer(cur_ts, time_now, answer) IN
    IF a.raised THEN Except(a.exc, cur_ts, old_response, a.from_date)
    ELSE LET c == check_response(a.value) IN
    IF c.raised THEN Except(c.exc, cur_ts, a.value, a.from_date)
    ELSE IF Len(c.value) > 0
    THEN LET p == parse_status(FirstHomework(c.value)) IN
         IF p.raised THEN Except(p.exc, cur_ts, a.value, a.from_date)
         ELSE [message |-> p.value,
               current_timestamp |-> GetCurrentDate(a.value, cur_ts),
               response |-> a.value, failure |-> NoException,
               from_date |-> a.from_date, homeworks |-> c.value,
               parsed |-> TRUE]
    ELSE [message |-> NO_NEW_STATUSES, current_timestamp |-> cur_ts,
          response |-> a.value, failure |-> NoException,
          from_date |-> a.from_date, homeworks |-> c.value, parsed |-> FALSE]

\* a loop that never sends the 'no new statuses' text
ShouldSend_NotSentinel(msg, prev) == msg # prev /\ msg # NO_NEW_STATUSES

\* a loop that sends whatever it computed, without the comparison
ShouldSend_Always(msg, prev) == TRUE

\* if message != previous_message (167)
ShouldSend(msg, prev) == msg # prev

\* a count that stops at 2: 'more than once' is all that is asked of it
Bump(n) == IF n < 2 THEN n + 1 ELSE n

\* the finally clause (166-170): send, remember, sleep. An exception that
\* send_message lets through leaves the finally clause at once, before the
\* assignment and the sleep, and ends main() with it.
Finally(t) ==
    IF ShouldSend(t.message, previous_message)
    THEN \E out \in DeliveryOutcomes :
         LET s == send_message(t.message, out) IN
         /\ delivery' = out
         /\ last_attempt' = s.text
         /\ last_delivered' = IF s.delivered THEN s.text ELSE last_delivered
         /\ delivered_count' =
              IF s.delivered /\ t.parsed /\ t.homeworks[1] = Tracked
              THEN Bump(delivered_count)
              ELSE delivered_count
         /\ IF s.raised
            THEN /\ Terminate("send_message")
                 /\ events' = <<"get_api_answer", "send_message">> \o s.calls
                 /\ UNCHANGED <<previous_message, now>>
            ELSE /\ previous_message' = t.message
                 /\ now' = now + RETRY_PERIOD
                 /\ events' = <<"get_api_answer", "send_message">> \o s.calls
                                \o <<"sleep">>
                 /\ UNCHANGED <<pc, exit_code, exit_cause>>
    ELSE /\ delivery' = "none"
         /\ now' = now + RETRY_PERIOD
         /\ events' = <<"get_api_answer", "sleep">>
         /\ UNCHANGED <<previous_message, pc, exit_code, exit_cause,
                        last_attempt, last_delivered, delivered_count>>

Iteration ==
    /\ pc = "Running"
    /\ iter < MaxIter
    /\ \E answer \in NetOutcomes :
         LET t == TryBlock(current_timestamp, response, now, answer) IN
         /\ net' = answer
         /\ iter' = iter + 1
         /\ from_date' = t.from_date
         /\ failure' = t.failure
         /\ message' = t.message
         /\ current_timestamp' = t.current_timestamp
         /\ response' = t.response
         /\ reported' = (reported \/ (t.parsed /\ t.homeworks[1] = Tracked))
         /\ Finally(t)
    /\ UNCHANGED <<env_vars, tokens_checked, critical_log, src_status, src_change,
                   fn_vars>>

(***************************************************************************)
(* The status of the tracked homework changes at the source                *)
(***************************************************************************)
StatusChange ==
    /\ src_change < MaxChanges
    /\ \E s \in Statuses \ {src_status} : src_status' = s
    /\ src_change' = src_change + 1
    /\ reported' = FALSE
    /\ delivered_count' = 0
    /\ UNCHANGED <<env_vars, pc, loop_vars, exit_code, exit_cause,
                   tokens_checked, critical_log, now,
                   iter, net, from_date, failure, delivery, events,
                   last_attempt, last_delivered, fn_vars>>

Next == Start \/ Iteration \/ StatusChange

Spec == Init /\ [][Next]_vars

(***************************************************************************)
(* check_response and parse_status applied on their own to any document    *)
(* and any record                                                          *)
(***************************************************************************)
\* documents: a dict, a list, None or a str; 'homeworks' in it or not; for a
\* dict, the value at 'homeworks' a list, a str, None or a dict
FnPayloads ==
    {p \in [type : {"dict", "list", "NoneType", "str"},
            has_homeworks : BOOLEAN,
            homeworks_type : {"list", "str", "NoneType", "dict"},
            homeworks : {<<>>, <<AnotherHomework>>,
                         <<AnotherHomework, NoNameHomework>>},
            has_current_date : BOOLEAN,
            current_date : {0, 1000}] :
        /\ p.homeworks_type # "list" => p.homeworks = <<>>
        /\ ~p.has_homeworks => p.homeworks_type = "NoneType"
        /\ p.type # "dict" => (p.homeworks_type = "NoneType" /\ ~p.has_current_date)
        /\ ~p.has_current_date => p.current_date = 0}

\* records: with or without 'homework_name', with or without 'status', the
\* status one of HOMEWORK_VERDICTS or another word
FnHomeworks ==
    {h \in [has_name : BOOLEAN, homework_name : {"", "hw1", "X"},
            has_status : BOOLEAN,
            status : {"", "approved", "reviewing", "rejected", "cancelled"}] :
        /\ h.has_name <=> h.homework_name # ""
        /\ ~h.has_status => h.status = ""}

InitFn ==
    /\ PRACTICUM_TOKEN = "secret"
    /\ TELEGRAM_TOKEN = "secret"
    /\ TELEGRAM_CHAT_ID = "secret"
    /\ MainInit
    /\ fn_payload \in FnPayloads
    /\ fn_homework \in FnHomeworks
    /\ fn_applied = {}
    /\ fn_validated = Return(<<>>)
    /\ fn_parsed = Return("")

main_vars == <<env_vars, pc, loop_vars, exit_code, exit_cause, tokens_checked,
               critical_log, now, src_status, src_change, obs_vars>>

ApplyCheckResponse ==
    /\ "check_response" \notin fn_applied
    /\ fn_validated' = check_response(fn_payload)
    /\ fn_applied' = fn_applied \cup {"check_response"}
    /\ UNCHANGED <<main_vars, fn_payload, fn_homework, fn_parsed>>

ApplyParseStatus ==
    /\ "parse_status" \notin fn_applied
    /\ fn_parsed' = parse_status(fn_homework)
    /\ fn_applied' = fn_applied \cup {"parse_status"}
    /\ UNCHANGED <<main_vars, fn_payload, fn_homework, fn_validated>>

NextFn == ApplyCheckResponse \/ ApplyParseStatus

SpecFn == InitFn /\ [][NextFn]_vars

(***************************************************************************)
(* Properties                                                              *)
(***************************************************************************)
\* a step that is one iteration of the loop
IterationStep == pc = "Running" /\ iter' = iter + 1

\* the calls of an iteration include name
Called(ev, name) == \E i \in DOMAIN ev : ev[i] = name
CountCalls(ev, name) == Cardinality({i \in DOMAIN ev : ev[i] = name})

\* a credential is absent: unset, or set to the empty string
Absent(x) == ~Truthy(x)
AnyAbsent == Absent(PRACTICUM_TOKEN) \/ Absent(TELEGRAM_TOKEN) \/ Absent(TELEGRAM_CHAT_ID)
AbsentNames ==
    {n \in {"PRACTICUM_TOKEN", "TELEGRAM_TOKEN", "TELEGRAM_CHAT_ID"} :
        \/ n = "PRACTICUM_TOKEN" /\ Absent(PRACTICUM_TOKEN)
        \/ n = "TELEGRAM_TOKEN" /\ Absent(TELEGRAM_TOKEN)
        \/ n = "TELEGRAM_CHAT_ID" /\ Absent(TELEGRAM_CHAT_ID)}
Elements(seq) == {seq[i] : i \in DOMAIN seq}

\* the text announcing the status the tracked homework has now
TrackedText == StatusText("hw1", HOMEWORK_VERDICTS[src_status])

\* C1: every status change a poll returned has exactly one delivered
\* notification: it is not delivered twice, and while it is undelivered the
\* loop has not recorded its text as sent (which would suppress it for good).
C1_ExactlyOncePerChange ==
    /\ delivered_count <= 1
    /\ (reported /\ delivered_count = 0) => previous_message # TrackedText

\* C2: an iteration calls send_message if and only if its message differs
\* from previous_message, and the text it hands over differs from the text
\* of the attempt before it.
C2_SendIffChanged ==
    [][IterationStep =>
         /\ Called(events', "send_message") <=> (message' # previous_message)
         /\ CountCalls(events', "send_message") <= 1
         /\ Called(events', "send_message") =>
              (last_attempt' = message' /\ last_attempt' # last_attempt)]_vars

\* two iterations in a row computed the same text and the second one did
\* not call send_message
C2_Witness ==
    /\ pc = "Running"
    /\ iter >= 2
    /\ message = previous_message
    /\ message = last_attempt
    /\ ~Called(events, "send_message")

\* C3: whatever failure the messaging client raises, send_message made one
\* delivery attempt, returned normally, and the loop went on to sleep.
C3_DeliveryFailureSwallowed ==
    delivery \in {"TelegramError", "Exception"} =>
        /\ CountCalls(events, "bot.send_message") = 1
        /\ Called(events, "sleep")
        /\ pc = "Running"

\* C4: the process terminates only at the startup credential check, never
\* once the loop has been entered.
C4_TerminatedOnlyAtStartup ==
    pc = "Terminated" => (iter = 0 /\ exit_cause # "send_message")

\* C5: with a credential absent, main() ends with a non-zero exit status
\* before the loop: get_api_answer and send_message are never called.
C5_MissingCredentialStopsBeforeLoop ==
    (AnyAbsent /\ pc # "start") =>
        /\ pc = "Terminated"
        /\ exit_code # 0
        /\ iter = 0
        /\ events = <<>>
        /\ net = NoRequest
        /\ last_attempt = ""

\* one credential unset, the other two present: the process has ended
\* with exit status 1 without an iteration
C5_Witness ==
    /\ PRACTICUM_TOKEN = None
    /\ Truthy(TELEGRAM_TOKEN) /\ Truthy(TELEGRAM_CHAT_ID)
    /\ pc = "Terminated"
    /\ exit_code = 1
    /\ iter = 0

\* C6: check_tokens returns True with all credentials present and returns
\* False, without raising, with one absent.
C6_CheckTokensReturnsBool ==
    tokens_checked # "not called" =>
        tokens_checked = (IF AnyAbsent THEN "False" ELSE "True")

\* C7: when check_tokens ran with a credential absent, a critical record
\* lists exactly the absent credentials.
C7_CriticalNamesAbsent ==
    (tokens_checked # "not called" /\ AnyAbsent) =>
        \E i \in DOMAIN critical_log :
            Elements(critical_log[i].listed) = AbsentNames

\* C8: when requests.get raised a RequestException, the failure the loop
\* reports is that transport failure, not a validation failure.
C8_TransportFailureReported ==
    net.outcome = "RequestException" =>
        /\ failure.cls = "RequestException"
        /\ message # ErrorReport(Exc("NotDictException", WrongFormatText("NoneType")))

\* C9: after an iteration in which get_api_answer, check_response or
\* parse_status raised, message is the error report of that failure, it
\* was sent unless equal to the previous message, and the loop slept and
\* is still running.
C9_FailureReportedLoopContinues ==
    failure # NoException =>
        /\ message = ErrorReport(failure)
        /\ Called(events, "sleep")
        /\ pc = "Running"
        /\ previous_message = message

\* the conditions of C10, read off the answer of the network
FetchSucceeded(n) == n.outcome = "response" /\ n.status_code = HTTP_OK
ValidationPasses(b) == b.type = "dict" /\ b.has_homeworks /\ b.homeworks_type = "list"
FormattingSucceeds(h) == h.has_name /\ h.has_status /\ h.status \in Statuses
FirstRecordFormatted(n) ==
    /\ FetchSucceeded(n)
    /\ ValidationPasses(n.body)
    /\ Len(n.body.homeworks) > 0
    /\ FormattingSucceeds(n.body.homeworks[1])

\* C10: an iteration changes current_timestamp only when fetch, validation
\* and formatting of the first record succeeded; it then becomes the
\* payload's current_date if present; otherwise it is unchanged.
C10_TimestampFrame ==
    [][IterationStep =>
         current_timestamp' =
            IF FirstRecordFormatted(net') /\ net'.body.has_current_date
            THEN net'.body.current_date
            ELSE current_timestamp]_vars

\* an iteration formatted a record and moved current_timestamp to the
\* payload's current_date, away from the start time
C10_Witness ==
    /\ iter >= 1
    /\ FirstRecordFormatted(net)
    /\ net.body.has_current_date
    /\ current_timestamp = net.body.current_date
    /\ current_timestamp \notin StartTimes

\* C11: the request of every iteration carries from_date equal to the
\* value current_timestamp has when the iteration starts, 0 included.
C11_FromDateIsWindowStart ==
    [][IterationStep => from_date' = current_timestamp]_vars

\* C12: previous_message is the text of the most recent notification that
\* was delivered, or the empty string when none was.
C12_PreviousMessageIsLastDelivered ==
    previous_message = last_delivered

VerdictSentence(status) ==
    CASE status = "approved" -> "Rabota proverena: revyueru vsyo ponravilos. Ura!"
      [] status = "reviewing" -> "Rabota vzyata na proverku revyuerom."
      [] status = "rejected" -> "Rabota proverena: u revyuera est zamechaniya."

\* C14: parse_status fails with HWNameNotExistException when 'homework_name'
\* is absent (also when 'status' is absent too), else with
\* StatusNotExistException when 'status' is absent, else with
\* HWStatusNotExistException naming the status when it is not approved,
\* reviewing or rejected; otherwise it returns the template filled with the
\* name and the verdict sentence of the status.
C14_ParseStatus ==
    "parse_status" \in fn_applied =>
        IF ~fn_homework.has_name
        THEN fn_parsed.raised /\ fn_parsed.exc.cls = "HWNameNotExistException"
        ELSE IF ~fn_homework.has_status
        THEN fn_parsed.raised /\ fn_parsed.exc.cls = "StatusNotExistException"
        ELSE IF fn_homework.status \notin {"approved", "reviewing", "rejected"}
        THEN /\ fn_parsed.raised
             /\ fn_parsed.exc.cls = "HWStatusNotExistException"
             /\ fn_parsed.exc.arg =
                  "Neizvestnyy status domashney raboty: " \o fn_homework.status
        ELSE /\ ~fn_parsed.raised
             /\ fn_parsed.value =
                  "Izmenilsya status proverki raboty \"" \o fn_homework.homework_name
                  \o "\". " \o VerdictSentence(fn_homework.status)

\* parse_status was given a record with neither key and raised
\* HWNameNotExistException
C14_Witness ==
    /\ "parse_status" \in fn_applied
    /\ ~fn_homework.has_name
    /\ ~fn_homework.has_status
    /\ fn_parsed.raised
    /\ fn_parsed.exc.cls = "HWNameNotExistException"

\* the calls an iteration may make, in order
IterationCalls ==
    {<<"get_api_answer", "sleep">>,
     <<"get_api_answer", "send_message", "bot.send_message", "sleep">>}

\* C15: every iteration makes one fetch, then at most one notification
\* attempt, then one sleep of RETRY_PERIOD, on every path.
C15_FetchNotifySleep ==
    [][IterationStep =>
         /\ events' \in IterationCalls
         /\ now' = now + RETRY_PERIOD]_vars

\* the exceptions parse_status raises
ParseFailures ==
    {"HWNameNotExistException", "StatusNotExistException",
     "HWStatusNotExistException"}

\* C16: with a validated payload of one or more records, the iteration's
\* outcome is that of the first record alone: if it can be formatted there
\* is no failure whatever the later records are, the message is its text,
\* the only text handed to the bot is that message, and current_timestamp
\* becomes the payload's current_date.
C16_OnlyFirstRecord ==
    [][(/\ IterationStep
        /\ FetchSucceeded(net')
        /\ ValidationPasses(net'.body)
        /\ Len(net'.body.homeworks) >= 1) =>
         LET first == net'.body.homeworks[1] IN
         /\ Called(events', "send_message") => last_attempt' = message'
         /\ IF FormattingSucceeds(first)
            THEN /\ failure' = NoException
                 /\ message' = StatusText(first.homework_name,
                                          VerdictSentence(first.status))
                 /\ net'.body.has_current_date =>
                      current_timestamp' = net'.body.current_date
            ELSE /\ failure'.cls \in ParseFailures
                 /\ current_timestamp' = current_timestamp]_vars

\* a payload whose second record has no name was formatted from its first
\* record without failure, delivered, and moved current_timestamp
C16_Witness ==
    /\ FetchSucceeded(net)
    /\ net.body.homeworks = <<Tracked, NoNameHomework>>
    /\ failure = NoException
    /\ message = TrackedText
    /\ delivery = "delivered"
    /\ current_timestamp = net.body.current_date
    /\ current_timestamp \notin StartTimes

\* the last iteration handed the sentinel to send_message
SentinelSent == message = NO_NEW_STATUSES /\ Called(events, "send_message")

\* C17: an iteration with an empty record list hands the sentinel to
\* send_message exactly when previous_message is not the sentinel: always
\* in the first iteration, never straight after an iteration that sent it.
C17_SentinelDeduplicated ==
    [][(IterationStep /\ message' = NO_NEW_STATUSES) =>
         /\ Called(events', "send_message") <=> previous_message # NO_NEW_STATUSES
         /\ iter = 0 => Called(events', "send_message")
         /\ SentinelSent => ~Called(events', "send_message")
         /\ (previous_message # NO_NEW_STATUSES) => last_attempt' = NO_NEW_STATUSES]_vars

\* the sentinel was sent in the third iteration, after a status message
\* of the tracked homework in an earlier one
C17_Witness ==
    /\ iter = 3
    /\ SentinelSent
    /\ reported
    /\ delivery = "delivered"
    /\ last_delivered = NO_NEW_STATUSES
    /\ pc = "Running"

====
